---- MODULE Spec2Model ----
(***************************************************************************)
(* NodeEngine (packages/engine-core/src/NodeEngine.ts): the supervisor of  *)
(* the query-engine child process.  One NodeEngine instance, its child     *)
(* process, the HTTP requests in flight and the callers of start(),        *)
(* request() and stop().                                                   *)
(*                                                                         *)
(* Scheduling.  Node runs one macrotask (an I/O callback: stream data,     *)
(* 'exit', 'error', 'close', a socket result) and then drains the          *)
(* microtask queue (continuations of awaits on settled promises) before    *)
(* the next macrotask.  The I/O actions below are therefore guarded by     *)
(* ~MicrotaskRunnable; the continuations of the callers are separate       *)
(* actions.                                                                *)
(***************************************************************************)
EXTENDS Integers, Sequences, FiniteSets, TLC

(* ---- bounds of the model ---- *)
NumCallers == 3     \* callers; each invokes one public operation
MaxBatch == 3       \* queries in one request()
MaxInput == 4       \* total input: operations called, queries after the
                    \* first of a request, lines the child writes

Callers == 1..NumCallers

(* ---- values ---- *)
NoError == [kind |-> "none", msg |-> <<>>, code |-> ""]
Ok == [kind |-> "ok", msg |-> <<>>, code |-> ""]
PrismaClientInitializationError(m) ==
    [kind |-> "InitializationError", msg |-> m, code |-> ""]
PrismaClientRustPanicError(m) ==
    [kind |-> "RustPanicError", msg |-> m, code |-> ""]
PrismaClientUnknownRequestError(m) ==
    [kind |-> "UnknownRequestError", msg |-> m, code |-> ""]
PrismaClientKnownRequestError(m, c, meta) ==
    [kind |-> "KnownRequestError", msg |-> m, code |-> c, meta |-> meta]
\* an error that is none of the client's classes: a Node system error with
\* its code, or the CancelError of a cancelled request
RawError(c, m) == [kind |-> "Error", msg |-> m, code |-> c]

StoppedMsg == <<"Can't perform request, as the Engine has already been stopped">>
NotFoundMsg == <<"Query engine binary for current platform could not be found.">>
NotExecutableMsg == <<"Couldn't start query engine as it's not executable on this operating system.">>

\* RustError (lastError) and RustLog (lastErrorLog); set = FALSE is undefined
NoRustError == [set |-> FALSE, is_panic |-> FALSE, message |-> <<>>]
NoRustLog == [set |-> FALSE, target |-> "", level |-> "", message |-> <<>>]

\* getMessage(log | error): the text of a RustLog or of a RustError
getMessage(x) == x.message

(* ---- what the child can write, one line at a time ---- *)
\* a stdout/stderr line: JSON of a log record, JSON of an error payload
\* (it has is_panic), or text that is not JSON
ReadyLine == [json |-> TRUE, payload |-> FALSE, level |-> "INFO",
              target |-> "prisma::server",
              message |-> <<"Started http server">>, is_panic |-> FALSE]
LogLine(level, m) == [json |-> TRUE, payload |-> FALSE, level |-> level,
                      target |-> "quaint", message |-> m, is_panic |-> FALSE]
PayloadLine(p) == [json |-> TRUE, payload |-> TRUE, level |-> "",
                   target |-> "",
                   message |-> IF p THEN <<"panicked">> ELSE <<"fatal">>,
                   is_panic |-> p]
TextLine(m) == [json |-> FALSE, payload |-> FALSE, level |-> "",
                target |-> "", message |-> m, is_panic |-> FALSE]

StdoutLines == {ReadyLine,
                LogLine("ERROR", <<"PANIC">>), LogLine("ERROR", <<"db error">>),
                LogLine("INFO", <<"PANIC">>),
                PayloadLine(TRUE), PayloadLine(FALSE),
                TextLine(<<"plain text">>)}
StderrLines == {PayloadLine(TRUE), PayloadLine(FALSE),
                LogLine("ERROR", <<"PANIC">>),
                TextLine(<<"Printing to stderr">>), TextLine(<<"Listening on ">>),
                TextLine(<<"plain text">>)}

ExitCodes == {"1", "126"}
TransportCodes == {"ECONNRESET", "ECONNREFUSED", "ETIMEDOUT"}

(* ---- the batch response of the worker ---- *)
CodedError == [user_facing_error |->
                 [error_code |-> "P2002", message |-> <<"unique constraint">>,
                  meta |-> "m"]]
UncodedError == [user_facing_error |->
                 [error_code |-> "", message |-> <<"query failed">>,
                  meta |-> ""]]
DataItem(d) == [data |-> d]
ErrorsItem(es) == [errors |-> es]
Items == {DataItem("d1"),
          ErrorsItem(<<CodedError, UncodedError>>),
          ErrorsItem(<<UncodedError, CodedError>>)}
Bodies(k) == [1..k -> Items]
NoAnswer == [queries |-> 0, body |-> <<>>, result |-> <<>>]

(* ---- the environment of the child (lines 306-345) ---- *)
\* an environment is a function from the names it defines to their values
EnvNames == {"PORT", "RUST_LOG", "DATABASE_URL"}
Envs(value) == UNION {[D -> {value}] : D \in SUBSET EnvNames}
UserEnvs == Envs("user")
ProcessEnvs == Envs("inherited")

\* lines 306-311: the variables the engine sets (default log configuration)
EngineEnv == [PRISMA_DML_PATH |-> "engine", PORT |-> "engine",
              RUST_BACKTRACE |-> "engine", RUST_LOG |-> "engine"]

\* the object spread {...a, ...b}: b's value wins for a name both define
Spread(a, b) ==
    [n \in DOMAIN a \cup DOMAIN b |-> IF n \in DOMAIN b THEN b[n] ELSE a[n]]

\* lines 338-342: { ...this.env, ...process.env, ...env }
SpawnEnv(user, inherited) == Spread(Spread(user, inherited), EngineEnv)

NoEnv == [n \in {} |-> ""]

VARIABLES
    binaryExists,           \* configuration: the binary is at prismaPath
    userEnv,                \* configuration: this.env (config env)
    processEnv,             \* process.env, the inherited environment
    childEnv,               \* the env option handed to spawn()
    startPromise,           \* this.startPromise: [state, err]
    istart,                 \* where internalStart() is
    engineStartDeferred,    \* this.engineStartDeferred
    child,                  \* this.child: "undefined" or "set"
    proc,                   \* the OS process: none, running, exited, closed
    killed,                 \* who called child.kill()
    childErrored,           \* the child has emitted 'error'
    nInput,                 \* input so far: calls, extra queries, lines
    exiting,                \* this.exiting
    url,                    \* this.url
    lastError,              \* this.lastError
    lastErrorLog,           \* this.lastErrorLog
    stderrLogs,             \* this.stderrLogs
    stdoutLogs,             \* this.stdoutLogs
    currentRequestPromise,  \* this.currentRequestPromise: 0 or a request
    spawnCount,             \* calls of spawn()
    op, pc, outcome,        \* per caller: operation, position, result
    req,                    \* per caller: its POST (request c is caller c's)
    isCanceled,             \* per request: isCanceled of the promise
    queries,                \* per caller: the number of queries of request()
    stopAwait,              \* per caller: the promise stop() awaits
    startAtCall,            \* per caller: state of startPromise at the call
    afterStop,              \* per caller: called after a stop() completed
    lastAnswer,             \* the latest answered request: body and result
    hist                    \* history of the incarnation (for the properties)

engine == <<startPromise, istart, engineStartDeferred, child, exiting, url,
            lastError, lastErrorLog, stderrLogs, stdoutLogs,
            currentRequestPromise>>
process == <<proc, killed, childErrored, nInput, spawnCount>>
callers == <<op, pc, outcome, req, isCanceled, queries, stopAwait,
             startAtCall, afterStop>>
config == <<binaryExists, userEnv, processEnv>>
vars == <<config, childEnv, engine, process, callers, lastAnswer, hist>>

(* ---- initial state: the engine after its constructor ---- *)
NoHistory == [ready |-> FALSE, fatal |-> FALSE, readyFirst |-> FALSE,
              panicLogFirst |-> FALSE, exitFirst |-> FALSE,
              panicDuring |-> {}, killedInflight |-> {},
              stdoutText |-> FALSE]

\* the engine fields after the constructor, whatever the configuration
Constructed ==
    /\ childEnv = NoEnv
    /\ startPromise = [state |-> "none", err |-> NoError]
    /\ istart = "idle"
    /\ engineStartDeferred = "undefined"
    /\ child = "undefined"
    /\ proc = "none"
    /\ killed = {}
    /\ childErrored = FALSE
    /\ nInput = 0
    /\ exiting = FALSE
    /\ url = "undefined"
    /\ lastError = NoRustError
    /\ lastErrorLog = NoRustLog
    /\ stderrLogs = <<>>
    /\ stdoutLogs = <<>>
    /\ currentRequestPromise = 0
    /\ spawnCount = 0
    /\ op = [c \in Callers |-> "none"]
    /\ pc = [c \in Callers |-> "idle"]
    /\ outcome = [c \in Callers |-> NoError]
    /\ req = [c \in Callers |-> "none"]
    /\ isCanceled = [c \in Callers |-> FALSE]
    /\ queries = [c \in Callers |-> 0]
    /\ stopAwait = [c \in Callers |-> 0]
    /\ startAtCall = [c \in Callers |-> "none"]
    /\ afterStop = [c \in Callers |-> FALSE]
    /\ lastAnswer = NoAnswer
    /\ hist = NoHistory

\* one environment, in which the user and the inherited environment both
\* define DATABASE_URL
Init ==
    /\ binaryExists \in BOOLEAN
    /\ userEnv = [DATABASE_URL |-> "user"]
    /\ processEnv = [DATABASE_URL |-> "inherited", PORT |-> "inherited"]
    /\ Constructed

(* ---- promises ---- *)
Settled == startPromise.state \in {"resolved", "rejected"}

\* resolve() and reject() of the promise internalStart() returns: the first
\* call settles it, later calls do nothing
resolve(p) ==
    IF p.state = "pending" THEN [state |-> "resolved", err |-> NoError] ELSE p
\* a reject() that settles the promise again
reject_Always(p, e) == [state |-> "rejected", err |-> e]

reject(p, e) ==
    IF p.state = "pending" THEN [state |-> "rejected", err |-> e] ELSE p

\* start(), request() and stop() all begin with the same await of start():
\* once startPromise has settled their continuations run in the order of
\* the calls
AwaitsStart(c) ==
    pc[c] \in {"start_await", "request_await_start", "stop_await_start"}
StartSettledFor(c) ==
    /\ Settled
    /\ \A d \in Callers : d < c => ~AwaitsStart(d)

\* a continuation of an await is ready to run
MicrotaskRunnable ==
    \E c \in Callers :
        \/ AwaitsStart(c) /\ Settled
        \/ pc[c] = "request_catch"
        \/ pc[c] = "stop_await_request" /\ req[stopAwait[c]] # "inflight"
        \/ pc[c] = "stop_await_kill"

(* ---- start() ---- *)
internalStart ==
    /\ startPromise' = [state |-> "pending", err |-> NoError]
    /\ istart' = "port"

\* a start() that does not look at the cached promise
StartNeeded_Always == TRUE

\* line 295: !this.startPromise
StartNeeded == startPromise.state = "none"

\* a start() that tries again after a failure
start_Retrying ==
    IF StartNeeded \/ startPromise.state = "rejected"
    THEN internalStart
    ELSE UNCHANGED <<startPromise, istart>>

start ==
    IF StartNeeded THEN internalStart ELSE UNCHANGED <<startPromise, istart>>

\* callers are interchangeable: they call in the order of their numbers
MayCall(c) == pc[c] = "idle" /\ (IF c = 1 THEN TRUE ELSE pc[c - 1] # "idle")

StopCompleted ==
    \E d \in Callers : op[d] = "stop" /\ pc[d] = "done" /\ outcome[d] = Ok

Call(c, o, at, k) ==
    /\ MayCall(c)
    /\ nInput + (IF k > 1 THEN k ELSE 1) <= MaxInput
    /\ nInput' = nInput + (IF k > 1 THEN k ELSE 1)
    /\ op' = [op EXCEPT ![c] = o]
    /\ pc' = [pc EXCEPT ![c] = at]
    /\ queries' = [queries EXCEPT ![c] = k]
    /\ startAtCall' = [startAtCall EXCEPT ![c] = startPromise.state]
    /\ afterStop' = [afterStop EXCEPT ![c] = StopCompleted]
    /\ start
    /\ UNCHANGED <<config, childEnv, engineStartDeferred, child, exiting, url,
                   lastError, lastErrorLog, stderrLogs, stdoutLogs,
                   currentRequestPromise, proc, killed, childErrored,
                   spawnCount, outcome, req, isCanceled, stopAwait,
                   lastAnswer, hist>>

CallStart(c) == Call(c, "start", "start_await", 0)
CallRequest(c) == \E k \in 1..MaxBatch : Call(c, "request", "request_await_start", k)
CallStop(c) == Call(c, "stop", "stop_await_start", 0)

\* the caller of start() gets the outcome of startPromise
StartReturn(c) ==
    /\ pc[c] = "start_await"
    /\ StartSettledFor(c)
    /\ pc' = [pc EXCEPT ![c] = "done"]
    /\ outcome' = [outcome EXCEPT ![c] =
            IF startPromise.state = "resolved" THEN Ok ELSE startPromise.err]
    /\ UNCHANGED <<config, childEnv, engine, process, op, req, isCanceled, queries,
                   stopAwait, startAtCall, afterStop, lastAnswer, hist>>

(* ---- internalStart(): getFreePort, getPrismaPath, spawn ---- *)
GetFreePort ==
    /\ istart = "port"
    /\ ~MicrotaskRunnable
    /\ \/ /\ istart' = "path"
          /\ UNCHANGED startPromise
       \/ /\ istart' = "done"
          /\ startPromise' = reject(startPromise, RawError("EMFILE", <<"listen">>))
    /\ UNCHANGED <<config, childEnv, engineStartDeferred, child, exiting, url,
                   lastError, lastErrorLog, stderrLogs, stdoutLogs,
                   currentRequestPromise, process, callers, lastAnswer, hist>>

\* lines 335-457 up to the await of the deferred
GetPrismaPathAndSpawn ==
    /\ istart = "path"
    /\ ~MicrotaskRunnable
    /\ IF ~binaryExists
       THEN /\ startPromise' = reject(startPromise,
                                  PrismaClientInitializationError(NotFoundMsg))
            /\ istart' = "done"
            /\ UNCHANGED <<child, childEnv, proc, spawnCount,
                           engineStartDeferred>>
       ELSE /\ child' = "set"
            /\ childEnv' = SpawnEnv(userEnv, processEnv)
            /\ proc' = "running"
            /\ spawnCount' = spawnCount + 1
            /\ IF lastError.set
               THEN /\ startPromise' = reject(startPromise,
                         PrismaClientInitializationError(getMessage(lastError)))
                    /\ istart' = "done"
                    /\ UNCHANGED engineStartDeferred
               ELSE IF lastErrorLog.set
               THEN /\ startPromise' = reject(startPromise,
                         PrismaClientInitializationError(getMessage(lastErrorLog)))
                    /\ istart' = "done"
                    /\ UNCHANGED engineStartDeferred
               ELSE /\ engineStartDeferred' = "pending"
                    /\ istart' = "waiting"
                    /\ UNCHANGED startPromise
    /\ UNCHANGED <<config, exiting, url, lastError, lastErrorLog,
                   stderrLogs, stdoutLogs, currentRequestPromise, killed,
                   childErrored, nInput, callers, lastAnswer, hist>>

(* ---- the child's stdout (lines 366-389) and the 'error' log listener ---- *)
\* a handler that keeps a payload only when it is a panic
RustErrorOf_PanicOnly(line) ==
    IF line.is_panic
    THEN [set |-> TRUE, is_panic |-> TRUE, message |-> line.message]
    ELSE NoRustError

\* lines 354 and 384: this.lastError = json, for a payload (it has is_panic)
RustErrorOf(line) ==
    [set |-> TRUE, is_panic |-> line.is_panic, message |-> line.message]

toLowerCase(l) ==
    CASE l = "INFO" -> "info" [] l = "ERROR" -> "error" [] OTHER -> l

\* convertLog(json): the RustLog of a raw record, its level in lower case
convertLog(line) ==
    [set |-> TRUE, target |-> line.target, level |-> toLowerCase(line.level),
     message |-> line.message]

startsWith(m, prefix) == m # <<>> /\ m[1] = prefix

\* a comparison with the level in lower case, as convertLog produces it
IsReadiness_LowerCaseLevel(line) ==
    /\ engineStartDeferred # "undefined"
    /\ line.level = "info"
    /\ line.target = "prisma::server"
    /\ startsWith(line.message, "Started http server")

\* the condition of lines 371-376
IsReadiness(line) ==
    /\ engineStartDeferred # "undefined"
    /\ line.level = "INFO"
    /\ line.target = "prisma::server"
    /\ startsWith(line.message, "Started http server")

\* the listener of lines 126-134 is registered for 'error' only
HasListener(level) == level = "error"

IsPanicLog(log) == log.message = <<"PANIC">>

\* handlePanic (187-192) gets as far as cancel() only when this.child is
\* set: child.kill() of an undefined child throws, and the catch of the
\* stdout handler swallows the TypeError
PanicKills == child = "set"

\* cancel() of a request promise: it rejects a pending promise with a
\* CancelError and sets isCanceled; on a settled promise it does nothing
Cancels(r) == r # 0 /\ req[r] = "inflight"

\* line 360: the two texts of the child that are not kept
IsNoise(line) ==
    line.message \in {<<"Printing to stderr">>, <<"Listening on ">>}

StdoutData(line) ==
    /\ proc \in {"running", "exited"}
    /\ nInput < MaxInput
    /\ ~MicrotaskRunnable
    /\ nInput' = nInput + 1
    /\ LET ready == line.json /\ IsReadiness(line)
           resolved == ready /\ engineStartDeferred = "pending"
           islog == line.json /\ ~line.payload
           log == convertLog(line)
           heard == islog /\ HasListener(log.level)
           panic == heard /\ IsPanicLog(log) /\ PanicKills
           r == currentRequestPromise
           cancelled == panic /\ Cancels(r)
       IN  /\ engineStartDeferred' =
                 IF ready THEN "undefined" ELSE engineStartDeferred
           /\ startPromise' =
                 IF resolved THEN resolve(startPromise) ELSE startPromise
           /\ url' = IF resolved THEN "set" ELSE url
           /\ istart' = IF resolved THEN "done" ELSE istart
           /\ lastErrorLog' = IF heard THEN log ELSE lastErrorLog
           /\ lastError' =
                 IF line.json /\ line.payload
                 THEN RustErrorOf(line)
                 ELSE lastError
           /\ killed' = IF panic THEN killed \cup {"panic"} ELSE killed
           /\ req' = IF cancelled THEN [req EXCEPT ![r] = "CancelError"] ELSE req
           /\ isCanceled' =
                 IF cancelled THEN [isCanceled EXCEPT ![r] = TRUE] ELSE isCanceled
           /\ pc' = IF cancelled THEN [pc EXCEPT ![r] = "request_catch"] ELSE pc
           /\ hist' = [hist EXCEPT
                 !.ready = @ \/ line = ReadyLine,
                 !.readyFirst = @ \/ (line = ReadyLine /\ ~hist.fatal),
                 !.fatal = @ \/ (line.json /\ (line.payload \/ IsPanicLog(line))),
                 !.panicLogFirst = @ \/ (panic /\ ~hist.ready
                                         /\ startPromise.state = "pending"),
                 !.panicDuring = @ \cup (IF panic
                                         THEN {c \in Callers : req[c] = "inflight"}
                                         ELSE {}),
                 !.stdoutText = @ \/ (~line.json /\ ~IsNoise(line))]
    /\ UNCHANGED <<config, childEnv, child, exiting, stderrLogs, stdoutLogs,
                   currentRequestPromise, proc, childErrored, spawnCount,
                   op, outcome, queries, stopAwait, startAtCall, afterStop,
                   lastAnswer>>

(* ---- the child's stderr (lines 347-364) ---- *)
StderrData(line) ==
    /\ proc \in {"running", "exited"}
    /\ nInput < MaxInput
    /\ ~MicrotaskRunnable
    /\ nInput' = nInput + 1
    /\ LET payload == line.json /\ line.payload
           rejected == payload /\ engineStartDeferred = "pending"
       IN  /\ lastError' = IF payload THEN RustErrorOf(line) ELSE lastError
           /\ engineStartDeferred' =
                 IF rejected THEN "settled" ELSE engineStartDeferred
           \* the catch of lines 454-457: kill the child, rethrow
           /\ killed' = IF rejected /\ child = "set"
                        THEN killed \cup {"start"} ELSE killed
           /\ startPromise' =
                 IF rejected
                 THEN reject(startPromise,
                             IF child = "set"
                             THEN PrismaClientInitializationError(line.message)
                             ELSE RawError("TypeError", <<>>))
                 ELSE startPromise
           /\ istart' = IF rejected THEN "done" ELSE istart
           /\ stderrLogs' =
                 IF ~line.json /\ ~IsNoise(line)
                 THEN stderrLogs \o <<"\n">> \o line.message
                 ELSE stderrLogs
           /\ hist' = [hist EXCEPT
                 !.fatal = @ \/ (line.json /\ (line.payload \/ IsPanicLog(line)))]
    /\ UNCHANGED <<config, childEnv, child, exiting, url, lastErrorLog, stdoutLogs,
                   currentRequestPromise, proc, childErrored, spawnCount,
                   callers, lastAnswer>>

(* ---- the child's 'exit', 'error' and 'close' (lines 391-440) ---- *)
\* an exit handler that does not look at the handle
HandleReleased_Ignored == FALSE

\* line 392: if (!this.child) return
HandleReleased == child = "undefined"

ChildExit(code) ==
    /\ proc = "running"
    /\ ~MicrotaskRunnable
    /\ proc' = "exited"
    /\ lastErrorLog' =
          IF HandleReleased THEN lastErrorLog
          ELSE IF lastError.set THEN lastErrorLog
          ELSE IF lastErrorLog.set THEN [lastErrorLog EXCEPT !.target = "exit"]
          ELSE IF code = "126"
          THEN [set |-> TRUE, target |-> "exit", level |-> "error",
                message |-> NotExecutableMsg]
          ELSE [set |-> TRUE, target |-> "exit", level |-> "error",
                message |-> stderrLogs \o stdoutLogs \o <<code>>]
    /\ hist' = [hist EXCEPT
          !.fatal = TRUE,
          !.exitFirst = @ \/ (~hist.ready /\ startPromise.state = "pending")]
    /\ UNCHANGED <<config, childEnv, startPromise, istart, engineStartDeferred,
                   child, exiting, url, lastError, stderrLogs, stdoutLogs,
                   currentRequestPromise, killed, childErrored, nInput,
                   spawnCount, callers, lastAnswer>>

ChildError ==
    /\ proc = "running"
    /\ ~childErrored
    /\ ~MicrotaskRunnable
    /\ childErrored' = TRUE
    /\ lastError' = [set |-> TRUE, is_panic |-> FALSE,
                     message |-> <<"spawn ENOENT">>]
    /\ startPromise' = reject(startPromise, RawError("ENOENT", <<"spawn ENOENT">>))
    /\ hist' = [hist EXCEPT !.fatal = TRUE]
    /\ UNCHANGED <<config, childEnv, istart, engineStartDeferred, child, exiting, url,
                   lastErrorLog, stderrLogs, stdoutLogs, currentRequestPromise,
                   proc, killed, nInput, spawnCount, callers, lastAnswer>>

ChildClose ==
    /\ proc = "exited"
    /\ ~MicrotaskRunnable
    /\ proc' = "closed"
    /\ UNCHANGED <<config, childEnv, engine, killed, childErrored, nInput,
                   spawnCount, callers, lastAnswer, hist>>

(* ---- request() (lines 528-587) ---- *)
\* a request() without the check of the handle
EngineStopped_Never == FALSE

\* line 531: !this.child
EngineStopped == child = "undefined"

\* a request() that goes on after a failed start
StartFailed_Ignored == FALSE

\* line 529: `await this.start()` throws the error of a rejected start
StartFailed == startPromise.state = "rejected"

\* after `await this.start()`: the start error, or the check of this.child,
\* or the POST, which becomes the tracked request
RequestAfterStart(c) ==
    /\ pc[c] = "request_await_start"
    /\ StartSettledFor(c)
    /\ IF StartFailed
       THEN /\ outcome' = [outcome EXCEPT ![c] = startPromise.err]
            /\ pc' = [pc EXCEPT ![c] = "done"]
            /\ UNCHANGED <<req, currentRequestPromise>>
       ELSE IF EngineStopped
       THEN /\ outcome' = [outcome EXCEPT ![c] =
                              PrismaClientUnknownRequestError(StoppedMsg)]
            /\ pc' = [pc EXCEPT ![c] = "done"]
            /\ UNCHANGED <<req, currentRequestPromise>>
       ELSE /\ req' = [req EXCEPT ![c] = "inflight"]
            /\ currentRequestPromise' = c
            /\ pc' = [pc EXCEPT ![c] = "request_await_post"]
            /\ UNCHANGED outcome
    /\ UNCHANGED <<config, childEnv, startPromise, istart, engineStartDeferred,
                   child, exiting, url, lastError, lastErrorLog, stderrLogs,
                   stdoutLogs, process, op, isCanceled, queries, stopAwait,
                   startAtCall, afterStop, lastAnswer, hist>>

graphQLToJSError(error) ==
    IF error.user_facing_error.error_code # ""
    THEN PrismaClientKnownRequestError(error.user_facing_error.message,
                                       error.user_facing_error.error_code,
                                       error.user_facing_error.meta)
    ELSE PrismaClientUnknownRequestError(error.user_facing_error.message)

\* a mapping that classifies an item by its last error entry
MapResult_LastError(result) ==
    IF "errors" \in DOMAIN result
    THEN graphQLToJSError(result.errors[Len(result.errors)])
    ELSE result

\* lines 554-559: body.map(result => ...)
MapResult(result) ==
    IF "errors" \in DOMAIN result
    THEN graphQLToJSError(result.errors[1])
    ELSE result

\* a mapping that gives up at an item with errors
MapBody_FailFast(body) ==
    IF \E i \in DOMAIN body : "errors" \in DOMAIN body[i]
    THEN <<graphQLToJSError(
              body[CHOOSE i \in DOMAIN body : "errors" \in DOMAIN body[i]].errors[1])>>
    ELSE body

MapBody(body) == [i \in DOMAIN body |-> MapResult(body[i])]

HasItemErrors(body) == \E i \in DOMAIN body : "errors" \in DOMAIN body[i]

\* a then-handler that records the error of an item as the engine's error
LastErrorAfterAnswer_ItemError(body) ==
    IF HasItemErrors(body)
    THEN [set |-> TRUE, is_panic |-> FALSE,
          message |-> body[CHOOSE i \in DOMAIN body : "errors" \in DOMAIN body[i]]
                          .errors[1].user_facing_error.message]
    ELSE lastError

\* lines 551-560: the then-handler assigns no field of the engine
LastErrorAfterAnswer(body) == lastError

\* the worker answers the POST of caller c with one item per query
PostAnswered(c) ==
    /\ pc[c] = "request_await_post"
    /\ req[c] = "inflight"
    /\ proc = "running"
    /\ ~MicrotaskRunnable
    /\ \E body \in Bodies(queries[c]) :
          /\ lastAnswer' = [queries |-> queries[c], body |-> body,
                            result |-> MapBody(body)]
          /\ lastError' = LastErrorAfterAnswer(body)
    /\ req' = [req EXCEPT ![c] = "resolved"]
    /\ outcome' = [outcome EXCEPT ![c] = Ok]
    /\ pc' = [pc EXCEPT ![c] = "done"]
    /\ UNCHANGED <<config, childEnv, startPromise, istart, engineStartDeferred,
                   child, exiting, url, lastErrorLog, stderrLogs, stdoutLogs,
                   currentRequestPromise, process, op, isCanceled, queries,
                   stopAwait, startAtCall, afterStop, hist>>

\* the POST of caller c fails in the transport
PostFailed(c) ==
    /\ pc[c] = "request_await_post"
    /\ req[c] = "inflight"
    /\ ~MicrotaskRunnable
    /\ \E code \in TransportCodes : req' = [req EXCEPT ![c] = code]
    /\ pc' = [pc EXCEPT ![c] = "request_catch"]
    /\ UNCHANGED <<config, childEnv, engine, process, op, outcome, isCanceled,
                   queries, stopAwait, startAtCall, afterStop, lastAnswer, hist>>

\* this.currentRequestPromise.isCanceled, read in the catch (563, 571)
TrackedIsCanceled == isCanceled[currentRequestPromise]

\* a fallback that reads the stdout buffer only
DiagnosticBuffer_StdoutOnly == stdoutLogs

\* line 581: this.stderrLogs || this.stdoutLogs
DiagnosticBuffer == IF stderrLogs # <<>> THEN stderrLogs ELSE stdoutLogs

\* the catch of lines 561-586, for the error the POST failed with
Classify(error) ==
    IF TrackedIsCanceled /\ lastError.set
    THEN IF lastError.is_panic
         THEN PrismaClientRustPanicError(getMessage(lastError))
         ELSE PrismaClientUnknownRequestError(getMessage(lastError))
    ELSE IF TrackedIsCanceled /\ lastErrorLog.set
    THEN PrismaClientUnknownRequestError(getMessage(lastErrorLog))
    ELSE IF error \in {"ECONNRESET", "ECONNREFUSED"}
    THEN IF lastError.set
         THEN PrismaClientUnknownRequestError(getMessage(lastError))
         ELSE IF lastErrorLog.set
         THEN PrismaClientUnknownRequestError(getMessage(lastErrorLog))
         ELSE PrismaClientUnknownRequestError(DiagnosticBuffer)
    ELSE RawError(error, <<>>)

RequestCatch(c) ==
    /\ pc[c] = "request_catch"
    /\ outcome' = [outcome EXCEPT ![c] = Classify(req[c])]
    /\ req' = [req EXCEPT ![c] = "rejected"]
    /\ pc' = [pc EXCEPT ![c] = "done"]
    /\ UNCHANGED <<config, childEnv, engine, process, op, isCanceled, queries,
                   stopAwait, startAtCall, afterStop, lastAnswer, hist>>

(* ---- stop() (lines 478-494) ---- *)
\* a stop() that does not look at the handle
ChildHeld_Unchecked == TRUE

\* line 487: if (this.child)
ChildHeld == child = "set"

\* lines 487-491: exiting, kill, and the await of kill()'s result
StopKill(c) ==
    IF ChildHeld
    THEN /\ exiting' = TRUE
         /\ killed' = killed \cup {"stop"}
         /\ pc' = [pc EXCEPT ![c] = "stop_await_kill"]
         /\ hist' = [hist EXCEPT !.killedInflight =
                        @ \cup {r \in Callers : req[r] = "inflight"}]
         /\ UNCHANGED outcome
    ELSE /\ pc' = [pc EXCEPT ![c] = "done"]
         /\ outcome' = [outcome EXCEPT ![c] = Ok]
         /\ UNCHANGED <<exiting, killed, hist>>

\* a stop() that does not wait for the tracked request
StopAwaits_Never == FALSE

\* line 480: stop() waits for the tracked request, if there is one
StopAwaits == currentRequestPromise # 0

StopAfterStart(c) ==
    /\ pc[c] = "stop_await_start"
    /\ StartSettledFor(c)
    /\ IF startPromise.state = "rejected"
       THEN /\ outcome' = [outcome EXCEPT ![c] = startPromise.err]
            /\ pc' = [pc EXCEPT ![c] = "done"]
            /\ UNCHANGED <<stopAwait, exiting, killed, hist>>
       ELSE \* stopAwait[c]: this.currentRequestPromise as line 480 reads it
            /\ stopAwait' = [stopAwait EXCEPT ![c] = currentRequestPromise]
            /\ IF StopAwaits
               THEN /\ pc' = [pc EXCEPT ![c] = "stop_await_request"]
                    /\ UNCHANGED <<outcome, exiting, killed, hist>>
               ELSE StopKill(c)
    /\ UNCHANGED <<config, childEnv, startPromise, istart, engineStartDeferred,
                   child, url, lastError, lastErrorLog, stderrLogs, stdoutLogs,
                   currentRequestPromise, proc, childErrored, nInput,
                   spawnCount, op, req, isCanceled, queries, startAtCall,
                   afterStop, lastAnswer>>

\* the awaited request has settled; its failure is swallowed (481-485)
StopAfterRequest(c) ==
    /\ pc[c] = "stop_await_request"
    /\ req[stopAwait[c]] # "inflight"
    /\ StopKill(c)
    /\ UNCHANGED <<config, childEnv, startPromise, istart, engineStartDeferred,
                   child, url, lastError, lastErrorLog, stderrLogs, stdoutLogs,
                   currentRequestPromise, proc, childErrored, nInput,
                   spawnCount, op, req, isCanceled, queries, stopAwait,
                   startAtCall, afterStop, lastAnswer>>

\* line 492: delete this.child
StopDelete(c) ==
    /\ pc[c] = "stop_await_kill"
    /\ child' = "undefined"
    /\ pc' = [pc EXCEPT ![c] = "done"]
    /\ outcome' = [outcome EXCEPT ![c] = Ok]
    /\ UNCHANGED <<config, childEnv, startPromise, istart, engineStartDeferred,
                   exiting, url, lastError, lastErrorLog, stderrLogs,
                   stdoutLogs, currentRequestPromise, process, op, req,
                   isCanceled, queries, stopAwait, startAtCall, afterStop,
                   lastAnswer, hist>>

(* ---- the specification ---- *)
Next ==
    \/ \E c \in Callers : CallStart(c)
    \/ \E c \in Callers : CallRequest(c)
    \/ \E c \in Callers : CallStop(c)
    \/ \E c \in Callers : StartReturn(c)
    \/ GetFreePort
    \/ GetPrismaPathAndSpawn
    \/ \E line \in StdoutLines : StdoutData(line)
    \/ \E line \in StderrLines : StderrData(line)
    \/ \E code \in ExitCodes : ChildExit(code)
    \/ ChildError
    \/ ChildClose
    \/ \E c \in Callers : RequestAfterStart(c)
    \/ \E c \in Callers : PostAnswered(c)
    \/ \E c \in Callers : PostFailed(c)
    \/ \E c \in Callers : RequestCatch(c)
    \/ \E c \in Callers : StopAfterStart(c)
    \/ \E c \in Callers : StopAfterRequest(c)
    \/ \E c \in Callers : StopDelete(c)

Spec == Init /\ [][Next]_vars

(* ---- the start of the engine under every environment ---- *)
InitEnv ==
    /\ binaryExists = TRUE
    /\ userEnv \in UserEnvs
    /\ processEnv \in ProcessEnvs
    /\ Constructed

NextEnv ==
    \/ \E c \in Callers : CallStart(c)
    \/ GetFreePort
    \/ GetPrismaPathAndSpawn

SpecEnv == InitEnv /\ [][NextEnv]_vars

(* ======================= the claims ======================= *)

StartCallers == {c \in Callers : op[c] = "start"}
EarlyStartCallers ==
    {c \in StartCallers : startAtCall[c] \in {"none", "pending"}}

\* C1: however many start() calls are issued before the first one settles,
\* spawn() is called once (and not at all only when the port or the binary
\* is not obtained) and all the callers get the same outcome.
C1_OneSpawnSameOutcome ==
    /\ spawnCount <= 1
    /\ (/\ binaryExists
        /\ istart \in {"waiting", "done"}
        /\ startPromise.err.code # "EMFILE") => spawnCount = 1
    /\ \A c, d \in EarlyStartCallers :
          (pc[c] = "done" /\ pc[d] = "done") => outcome[c] = outcome[d]
    /\ \A c \in EarlyStartCallers :
          pc[c] = "done" => outcome[c].kind # "none"

C1_Witness ==
    /\ spawnCount = 1
    /\ \E c, d \in EarlyStartCallers :
          /\ c # d
          /\ startAtCall[d] = "pending"
          /\ pc[c] = "done" /\ pc[d] = "done"

\* C2: when the readiness sentinel is read before any fatal record, spawn
\* error or exit, start() has resolved, the url is set, one process was
\* spawned, and every start() caller, also a later one, gets the success.
C2_ReadyResolvesOnce ==
    hist.readyFirst =>
        /\ startPromise.state = "resolved"
        /\ url = "set"
        /\ spawnCount = 1
        /\ \A c \in StartCallers : pc[c] = "done" => outcome[c] = Ok

C2_Witness ==
    /\ hist.readyFirst
    /\ \E c \in StartCallers : startAtCall[c] = "resolved" /\ pc[c] = "done"

\* C3: a PANIC log record read while start() is in flight and before the
\* readiness sentinel makes start() reject with an InitializationError and
\* the child killed; stated for the time the child's streams have closed.
C3_PanicBeforeReadyRejects ==
    (hist.panicLogFirst /\ ~hist.ready /\ proc = "closed") =>
        /\ killed # {}
        /\ startPromise.state = "rejected"
        /\ startPromise.err.kind = "InitializationError"

\* C4: when the child exits before the readiness sentinel was read, the
\* start() in flight does not stay pending: once the child's streams have
\* closed it has rejected with an InitializationError.
C4_ExitBeforeReadyRejects ==
    (hist.exitFirst /\ ~hist.ready /\ proc = "closed") =>
        /\ startPromise.state = "rejected"
        /\ startPromise.err.kind = "InitializationError"

\* C5: when the binary is missing or the child has emitted 'error', a
\* start() that got its port and rejected has rejected with an
\* InitializationError.
C5_StartRejectsWithInitializationError ==
    (/\ startPromise.state = "rejected"
     /\ startPromise.err.code # "EMFILE"
     /\ (~binaryExists \/ childErrored)) =>
        startPromise.err.kind = "InitializationError"

\* C6: the result of an answered request has one element per query, in the
\* order of the body: the item itself when it has no errors, a
\* KnownRequestError or UnknownRequestError of the item when it has.
C6_BatchResultsInOrder ==
    LET b == lastAnswer.body
        r == lastAnswer.result
    IN  /\ Len(r) = lastAnswer.queries
        /\ Len(b) = lastAnswer.queries
        /\ \A i \in 1..lastAnswer.queries :
              IF "errors" \in DOMAIN b[i]
              THEN /\ "kind" \in DOMAIN r[i]
                   /\ r[i].kind \in {"KnownRequestError", "UnknownRequestError"}
                   /\ r[i].msg = b[i].errors[1].user_facing_error.message
              ELSE r[i] = b[i]

C6_Witness ==
    /\ lastAnswer.queries = 3
    /\ "errors" \in DOMAIN lastAnswer.body[2]
    /\ lastAnswer.result[1] = DataItem("d1")
    /\ lastAnswer.result[3] = DataItem("d1")
    /\ \E c \in Callers : op[c] = "request" /\ outcome[c] = Ok

\* C7: a request in flight when a PANIC log record is handled fails with a
\* RustPanicError.
C7_PanicFailsWithRustPanicError ==
    \A c \in hist.panicDuring :
        pc[c] = "done" => outcome[c].kind = "RustPanicError"

C9_StopNeverFails ==
    \A c \in Callers : (op[c] = "stop" /\ pc[c] = "done") => outcome[c] = Ok

\* C10 as claimed: no request is in flight when stop() kills the child.
C10_StopKillsAfterAllRequests == hist.killedInflight = {}

\* C10 as amended: when stop() has killed the child, the request that was
\* the tracked one when stop() resumed after start() is not in flight.
C10_StopKillsAfterTrackedRequest ==
    \A c \in Callers :
        pc[c] = "stop_await_kill" =>
            (stopAwait[c] = 0 \/ req[stopAwait[c]] # "inflight")

C10_Witness ==
    \E c \in Callers :
        /\ pc[c] = "stop_await_kill"
        /\ stopAwait[c] # 0
        /\ req[stopAwait[c]] \in {"resolved", "rejected"}

\* C12: a name defined by the user (config env) and by the inherited
\* environment and not by the engine reaches the child with the user's value.
C12_UserEnvOverridesInherited ==
    child = "set" =>
        \A n \in (DOMAIN userEnv \cap DOMAIN processEnv) \ DOMAIN EngineEnv :
            childEnv[n] = userEnv[n]

\* C11: every step of a stop() called after a completed stop() leaves the
\* handle (undefined), exiting, lastError, lastErrorLog, the start promise,
\* the process and the spawn count as they are, and kills nothing.
C11_SecondStopChangesNothing ==
    [][\A c \in Callers :
          (op'[c] = "stop" /\ afterStop'[c] /\ pc'[c] # pc[c]) =>
              /\ child = "undefined"
              /\ pc'[c] # "stop_await_kill"
              /\ UNCHANGED <<child, exiting, lastError, lastErrorLog,
                             startPromise, istart, proc, killed, spawnCount>>]_vars

C11_Witness ==
    \E c \in Callers :
        /\ op[c] = "stop" /\ afterStop[c]
        /\ pc[c] = "done" /\ outcome[c] = Ok
        /\ exiting /\ child = "undefined"

\* C13: for a start() call made after start() has resolved, whatever the
\* child does afterwards (payload, PANIC log, 'error', exit), the start
\* promise is still resolved and the call resolves.
C13_ResolvedStaysResolved ==
    \A c \in Callers :
        startAtCall[c] = "resolved" =>
            /\ startPromise.state = "resolved"
            /\ (op[c] = "start" /\ pc[c] = "done") => outcome[c] = Ok

C13_Witness ==
    /\ hist.readyFirst
    /\ childErrored
    /\ lastError.set
    /\ \E c \in StartCallers : startAtCall[c] = "resolved" /\ pc[c] = "done"

\* C14: while a POST is in flight start() has resolved and the url is set;
\* a request() whose start() rejected has issued no POST and has failed
\* with the start error.
C14_PostOnlyAfterReady ==
    \A c \in Callers :
        /\ req[c] = "inflight" =>
              (startPromise.state = "resolved" /\ url = "set")
        /\ (op[c] = "request" /\ pc[c] = "done"
            /\ startPromise.state = "rejected") =>
              (req[c] = "none" /\ outcome[c] = startPromise.err)

C14_Witness ==
    \E c \in Callers :
        /\ req[c] = "inflight"
        /\ startAtCall[c] \in {"none", "pending"}
        /\ currentRequestPromise = c

\* C15: nothing is spawned a second time, and after a rejected start, a
\* kill or an exit of the child no start is under way; a call made after a
\* rejected start gets the failure of that start.
C15_NoRestart ==
    /\ spawnCount <= 1
    /\ (startPromise.state = "rejected" \/ killed # {}
        \/ proc \in {"exited", "closed"}) => istart \in {"waiting", "done"}
    /\ \A c \in Callers :
          (startAtCall[c] = "rejected" /\ pc[c] = "done") =>
              outcome[c] = startPromise.err

C15_Witness ==
    /\ spawnCount = 1
    /\ proc \in {"exited", "closed"}
    /\ \E c \in Callers : startAtCall[c] = "rejected" /\ pc[c] = "done"

\* C16: an item with errors becomes the KnownRequestError (message, code,
\* meta) of its first error entry when that entry has an error code, and the
\* UnknownRequestError (message) of its first entry otherwise.
C16_FirstErrorClassifies ==
    \A i \in 1..Len(lastAnswer.body) :
        "errors" \in DOMAIN lastAnswer.body[i] =>
            LET first == lastAnswer.body[i].errors[1].user_facing_error
            IN  lastAnswer.result[i] =
                    IF first.error_code # ""
                    THEN PrismaClientKnownRequestError(
                             first.message, first.error_code, first.meta)
                    ELSE PrismaClientUnknownRequestError(first.message)

C16_Witness ==
    \E i, j \in 1..Len(lastAnswer.body) :
        /\ lastAnswer.body[i] = ErrorsItem(<<UncodedError, CodedError>>)
        /\ lastAnswer.result[i].kind = "UnknownRequestError"
        /\ lastAnswer.body[j] = ErrorsItem(<<CodedError, UncodedError>>)
        /\ lastAnswer.result[j].kind = "KnownRequestError"
        /\ lastAnswer.result[j].code = "P2002"

\* C17: when the catch of a request handles a connection reset or refused
\* and neither lastError nor lastErrorLog is set, the request fails with the
\* UnknownRequestError of the stderr buffer, or of the stdout buffer when the
\* stderr buffer is empty.
C17_FallsBackToDiagnostics ==
    [][\A c \in Callers :
          (/\ pc[c] = "request_catch" /\ pc'[c] = "done"
           /\ req[c] \in {"ECONNRESET", "ECONNREFUSED"}
           /\ ~lastError.set /\ ~lastErrorLog.set) =>
              outcome'[c] = PrismaClientUnknownRequestError(
                                IF stderrLogs # <<>> THEN stderrLogs
                                                     ELSE stdoutLogs)]_vars

C17_Witness ==
    /\ ~lastError.set /\ ~lastErrorLog.set
    /\ stderrLogs = <<"\n", "plain text">>
    /\ \E c \in Callers :
          /\ op[c] = "request" /\ pc[c] = "done"
          /\ outcome[c] = PrismaClientUnknownRequestError(stderrLogs)

\* C18: the step that answers a request with a body that has item errors
\* leaves the handle, the start promise, lastError, lastErrorLog and the two
\* buffers as they are, and kills nothing.
C18_ItemErrorsChangeNothing ==
    [][\A c \in Callers :
          (/\ pc[c] = "request_await_post" /\ req'[c] = "resolved"
           /\ HasItemErrors(lastAnswer'.body)) =>
              UNCHANGED <<child, startPromise, lastError, lastErrorLog,
                          stderrLogs, stdoutLogs, proc, killed, exiting>>]_vars

C18_Witness ==
    /\ HasItemErrors(lastAnswer.body)
    /\ child = "set" /\ proc = "running" /\ killed = {}
    /\ ~lastError.set /\ ~lastErrorLog.set
    /\ \E c \in Callers : op[c] = "request" /\ pc[c] = "done" /\ outcome[c] = Ok

\* C19: no step unsets lastError or lastErrorLog once it is set.
C19_LastErrorNeverCleared ==
    [][/\ lastError.set => lastError'.set
       /\ lastErrorLog.set => lastErrorLog'.set]_vars

C19_Witness ==
    /\ lastError.set /\ lastErrorLog.set
    /\ lastErrorLog.target = "exit"
    /\ proc = "closed"
    /\ \E c \in Callers : pc[c] = "done"

\* C20: a request in flight is the tracked one: currentRequestPromise is not
\* replaced while the request it holds is outstanding.
C20_TrackedUntilSettled ==
    \A c \in Callers : req[c] = "inflight" => currentRequestPromise = c

\* a log record with the message PANIC has been read: hist.fatal is set by
\* a payload (which sets lastError), by 'exit' (the process no longer runs),
\* by 'error' (childErrored) or by such a record, on either stream and at
\* any level
PanicRecordRead ==
    /\ hist.fatal
    /\ ~lastError.set
    /\ ~childErrored
    /\ proc = "running"

\* C21: once a log record with the message PANIC has been read, on either
\* stream and at any level, while the child runs and its handle is held,
\* the child has been killed by the panic handling.
C21_PanicRecordKills ==
    (PanicRecordRead /\ child = "set") => "panic" \in killed

\* C22: once a stdout line that is not JSON and no noise has been read, the
\* stdout buffer is not empty.
C22_StdoutTextIsBuffered == hist.stdoutText => stdoutLogs # <<>>

\* C23: a request whose POST failed with a transport error other than a
\* connection reset or refused, and was not cancelled, fails with that error.
C23_OtherTransportErrorUnchanged ==
    [][\A c \in Callers :
          (/\ pc[c] = "request_catch" /\ pc'[c] = "done"
           /\ req[c] = "ETIMEDOUT") =>
              outcome'[c] = RawError("ETIMEDOUT", <<>>)]_vars

\* C24: a failed request that was not cancelled itself is classified by its
\* own failure: never by the branches for a cancelled request.
C24_ClassifiedByOwnStatus ==
    [][\A c \in Callers :
          (/\ pc[c] = "request_catch" /\ pc'[c] = "done"
           /\ ~isCanceled[c]) =>
              outcome'[c] =
                  IF req[c] \in {"ECONNRESET", "ECONNREFUSED"}
                  THEN PrismaClientUnknownRequestError(
                           IF lastError.set THEN getMessage(lastError)
                           ELSE IF lastErrorLog.set THEN getMessage(lastErrorLog)
                           ELSE IF stderrLogs # <<>> THEN stderrLogs
                           ELSE stdoutLogs)
                  ELSE RawError(req[c], <<>>)]_vars

\* C25: while stop() is the only operation that has been called, nothing
\* has been spawned.
C25_StopSpawnsNothing ==
    (\A c \in Callers : op[c] \in {"none", "stop"}) => spawnCount = 0

\* C26: a request() that reaches its check of the handle after stop() has
\* deleted it fails with the UnknownRequestError of the stopped engine,
\* issues no POST and leaves currentRequestPromise as it is.
C26_NoPostAfterRelease ==
    [][\A c \in Callers :
          (/\ pc[c] = "request_await_start" /\ pc'[c] # pc[c]
           /\ child = "undefined" /\ spawnCount = 1) =>
              /\ pc'[c] = "done"
              /\ outcome'[c] = PrismaClientUnknownRequestError(StoppedMsg)
              /\ req'[c] = "none"
              /\ UNCHANGED currentRequestPromise]_vars

C26_Witness ==
    \E c \in Callers :
        /\ op[c] = "request"
        /\ pc[c] = "done" /\ req[c] = "none"
        /\ outcome[c] = PrismaClientUnknownRequestError(StoppedMsg)
        /\ child = "undefined"
        /\ currentRequestPromise \notin {0, c}

\* C27: the exit of the child leaves lastError and lastErrorLog as they are
\* when the handle has been deleted by stop(); when the handle is held and
\* neither is set, it sets lastErrorLog with the target exit.
C27_ExitAfterStopRecordsNothing ==
    [][(proc = "running" /\ proc' = "exited") =>
          /\ child = "undefined" => UNCHANGED <<lastError, lastErrorLog>>
          /\ (child = "set" /\ ~lastError.set /\ ~lastErrorLog.set) =>
                /\ lastErrorLog'.set
                /\ lastErrorLog'.target = "exit"
                /\ UNCHANGED lastError]_vars

C27_Witness ==
    /\ proc \in {"exited", "closed"}
    /\ child = "undefined"
    /\ "stop" \in killed
    /\ exiting
    /\ ~lastError.set /\ ~lastErrorLog.set

====
